---- MODULE Spec2Model ----
(***************************************************************************)
(* Swipe-and-match reconciliation and the messaging guard of the pet       *)
(* matchmaking API (src/main.py), over the five collections the handlers   *)
(* read and write.  Id strings are sequences of characters, ObjectIds are  *)
(* sequences of 12 bytes, and oid()/str() convert between them as bson     *)
(* does.                                                                   *)
(***************************************************************************)
EXTENDS Integers, Sequences, FiniteSets, TLC

VARIABLES db_owner, db_pet, db_like, db_match, db_message, last, calls

vars == <<db_owner, db_pet, db_like, db_match, db_message, last, calls>>

(* ------------------------------- bounds -------------------------------- *)
MaxOwners == 2
MaxPets == 2
MaxLikes == 3
MaxIdLikes == 2
MaxMessages == 1
NumCalls == 2

(* --------------------------- ids and oid() ----------------------------- *)
OidLen == 24

LowerHex == <<"0","1","2","3","4","5","6","7","8","9","a","b","c","d","e","f">>
UpperHex == <<"0","1","2","3","4","5","6","7","8","9","A","B","C","D","E","F">>

IsHexChar(c) == \E i \in 1..16 : LowerHex[i] = c \/ UpperHex[i] = c
HexVal(c) == (CHOOSE i \in 1..16 : LowerHex[i] = c \/ UpperHex[i] = c) - 1

\* ObjectId(id_str) accepts exactly the strings of 24 hex digits, either case
ValidOid(s) == Len(s) = OidLen /\ \A i \in 1..Len(s) : IsHexChar(s[i])

\* oid(id_str) for an accepted string: the 12 bytes the hex digits spell
oid(s) == [i \in 1..(OidLen \div 2) |-> 16 * HexVal(s[2*i - 1]) + HexVal(s[2*i])]

\* str(ObjectId): 24 lower-case hex digits
str(o) == [i \in 1..OidLen |->
             LET b == o[(i + 1) \div 2]
             IN LowerHex[(IF i % 2 = 1 THEN b \div 16 ELSE b % 16) + 1]]

None == [none |-> TRUE]

CollTag(coll) == CASE coll = "owner" -> 170
                   [] coll = "pet" -> 187
                   [] coll = "like" -> 204
                   [] coll = "match" -> 221
                   [] coll = "message" -> 238

\* the n-th identifier the store generates for a collection
NewOid(coll, n) == [i \in 1..(OidLen \div 2) |->
                      IF i = 1 THEN CollTag(coll)
                      ELSE IF i = OidLen \div 2 THEN n ELSE 0]

\* create_document(collection_name, data): insert with a generated _id
create_document(docs, coll, data) ==
    Append(docs, [id |-> NewOid(coll, Len(docs) + 1)] @@ data)

\* the id string create_document returns for the document it inserted
inserted_id(docs, coll) == str(NewOid(coll, Len(docs) + 1))

\* a lookup that falls back to the first document when the filter matches none
FindById_FirstDoc(docs, o) ==
    IF \E i \in 1..Len(docs) : docs[i].id = o
    THEN docs[CHOOSE i \in 1..Len(docs) : docs[i].id = o]
    ELSE IF Len(docs) > 0 THEN docs[1] ELSE None

\* collection.find_one({"_id": o})
FindById(docs, o) ==
    IF \E i \in 1..Len(docs) : docs[i].id = o
    THEN docs[CHOOSE i \in 1..Len(docs) : docs[i].id = o]
    ELSE None

(* ------------------------------ inputs --------------------------------- *)
Upper(s) == [i \in 1..Len(s) |-> IF IsHexChar(s[i]) THEN UpperHex[HexVal(s[i]) + 1] ELSE s[i]]

\* a string ObjectId() rejects
BadId == <<"b", "a", "d">>

PetId1 == str(NewOid("pet", 1))
PetId2 == str(NewOid("pet", 2))
OwnerId1 == str(NewOid("owner", 1))
OwnerId2 == str(NewOid("owner", 2))
OwnerId3 == str(NewOid("owner", 3))
MatchId1 == str(NewOid("match", 1))
MatchId2 == str(NewOid("match", 2))

PetIdInputs == {PetId1, PetId2, BadId}

PetIds == {PetId1, PetId2}

OwnerIdInputs == {OwnerId1, OwnerId2, BadId}

MatchIdInputs == {MatchId1, Upper(MatchId1), MatchId2, BadId}

Emails == {"a@x.io", "b@x.io"}

Actions == {"like", "pass"}

LikeInputs == [liker_pet_id : PetIdInputs, target_pet_id : PetIdInputs,
               action : Actions, created_by_owner_id : {OwnerId1}]

\* swipes between the ids the store gives the first two pets
PetLikeInputs == [liker_pet_id : PetIds, target_pet_id : PetIds,
                  action : Actions, created_by_owner_id : {OwnerId1}]

\* the swipes that make matches, for the messaging specification
MatchMakingInputs == [liker_pet_id : PetIds, target_pet_id : PetIds,
                      action : {"like"}, created_by_owner_id : {OwnerId1}]

SendMessageInputs == [match_id : MatchIdInputs, sender_pet_id : {PetId1},
                      sender_owner_id : {OwnerId1, OwnerId2, OwnerId3}, text : {"hi"}]

(* ----------------------------- responses ------------------------------- *)
HTTPException(code, detail) == [code |-> code, detail |-> detail]
Ok(body) == [code |-> 200] @@ body

(* ------------------------------- state --------------------------------- *)
NoCall == [pc |-> "idle"]

Init ==
    /\ db_owner = <<>>
    /\ db_pet = <<>>
    /\ db_like = <<>>
    /\ db_match = <<>>
    /\ db_message = <<>>
    /\ last = [op |-> "none"]
    /\ calls = [c \in 1..NumCalls |-> NoCall]

(* ------------------------------ owners --------------------------------- *)
create_owner(owner) ==
    /\ IF \E i \in 1..Len(db_owner) : db_owner[i].email = owner.email
       THEN /\ last' = [op |-> "create_owner",
                        resp |-> HTTPException(409, "Owner with this email already exists")]
            /\ UNCHANGED db_owner
       ELSE /\ db_owner' = create_document(db_owner, "owner", owner)
            /\ last' = [op |-> "create_owner",
                        resp |-> Ok([id |-> inserted_id(db_owner, "owner")])]
    /\ UNCHANGED <<db_pet, db_like, db_match, db_message, calls>>

(* -------------------------------- pets --------------------------------- *)
create_pet(p) ==
    /\ IF ~ValidOid(p.owner_id)
       THEN /\ last' = [op |-> "create_pet",
                        resp |-> HTTPException(400, "Invalid id format")]
            /\ UNCHANGED db_pet
       ELSE IF FindById(db_owner, oid(p.owner_id)) = None
       THEN /\ last' = [op |-> "create_pet",
                        resp |-> HTTPException(400, "Owner not found")]
            /\ UNCHANGED db_pet
       ELSE /\ db_pet' = create_document(db_pet, "pet", p)
            /\ last' = [op |-> "create_pet",
                        resp |-> Ok([id |-> inserted_id(db_pet, "pet")])]
    /\ UNCHANGED <<db_owner, db_like, db_match, db_message, calls>>

(* --------------------------- swipes and matches ------------------------- *)
\* the self-swipe check left out
IsSelfSwipe_Never(lk) == FALSE

\* like.liker_pet_id == like.target_pet_id
IsSelfSwipe(lk) == lk.liker_pet_id = lk.target_pet_id

\* db["like"].find_one({liker_pet_id: target, target_pet_id: liker, action: "like"})
FindMutual(likes, lk) ==
    LET hit(d) == /\ d.liker_pet_id = lk.target_pet_id
                  /\ d.target_pet_id = lk.liker_pet_id
                  /\ d.action = "like"
    IN IF \E i \in 1..Len(likes) : hit(likes[i])
       THEN likes[CHOOSE i \in 1..Len(likes) :
                    hit(likes[i]) /\ \A j \in 1..(i - 1) : ~hit(likes[j])]
       ELSE None

\* the action test left out of the condition
WantsMatch_AnyAction(lk, mutual) == mutual # None

\* like.action == 'like' and mutual
WantsMatch(lk, mutual) == lk.action = "like" /\ mutual # None

\* the duplicate check querying one ordering only
FindMatchPair_OneOrdering(matches, lk) ==
    LET hit(d) == d.pet_a_id = lk.liker_pet_id /\ d.pet_b_id = lk.target_pet_id
    IN IF \E i \in 1..Len(matches) : hit(matches[i])
       THEN matches[CHOOSE i \in 1..Len(matches) :
                      hit(matches[i]) /\ \A j \in 1..(i - 1) : ~hit(matches[j])]
       ELSE None

\* db["match"].find_one({"$or": [{a: liker, b: target}, {a: target, b: liker}]})
FindMatchPair(matches, lk) ==
    LET hit(d) == \/ d.pet_a_id = lk.liker_pet_id /\ d.pet_b_id = lk.target_pet_id
                  \/ d.pet_a_id = lk.target_pet_id /\ d.pet_b_id = lk.liker_pet_id
    IN IF \E i \in 1..Len(matches) : hit(matches[i])
       THEN matches[CHOOSE i \in 1..Len(matches) :
                      hit(matches[i]) /\ \A j \in 1..(i - 1) : ~hit(matches[j])]
       ELSE None

\* the two owner ids taken from the wrong pets
NewMatch_OwnersSwapped(lk, liker_pet, target_pet) ==
    [pet_a_id |-> lk.liker_pet_id, pet_b_id |-> lk.target_pet_id,
     owner_a_id |-> target_pet.owner_id, owner_b_id |-> liker_pet.owner_id]

\* Match(pet_a_id=liker, pet_b_id=target, owner_a_id=..., owner_b_id=...)
NewMatch(lk, liker_pet, target_pet) ==
    [pet_a_id |-> lk.liker_pet_id, pet_b_id |-> lk.target_pet_id,
     owner_a_id |-> liker_pet.owner_id, owner_b_id |-> target_pet.owner_id]

\* return {"status": "recorded", "match": False}
Recorded == Ok([status |-> "recorded", match |-> FALSE])

\* the return after the insert missing, so the call falls through to the last line
Matched_FallThrough(match_id) == Recorded

\* return {"status": "match", "match_id": match_id}
Matched(match_id) == Ok([status |-> "match", match_id |-> match_id])

\* one whole swipe call: the collections and the response it leaves
swipe_result(lk) ==
    IF IsSelfSwipe(lk)
    THEN [like |-> db_like, match |-> db_match,
          resp |-> HTTPException(400, "Cannot swipe your own pet")]
    ELSE
    LET likes1 == create_document(db_like, "like", lk)
        mutual == FindMutual(likes1, lk)
    IN IF ~WantsMatch(lk, mutual)
       THEN [like |-> likes1, match |-> db_match, resp |-> Recorded]
       ELSE IF ~ValidOid(lk.liker_pet_id) \/ ~ValidOid(lk.target_pet_id)
       THEN [like |-> likes1, match |-> db_match,
             resp |-> HTTPException(400, "Invalid id format")]
       ELSE
       LET liker_pet == FindById(db_pet, oid(lk.liker_pet_id))
           target_pet == FindById(db_pet, oid(lk.target_pet_id))
       IN IF liker_pet = None \/ target_pet = None
          THEN [like |-> likes1, match |-> db_match, resp |-> Recorded]
          ELSE IF FindMatchPair(db_match, lk) = None
          THEN [like |-> likes1,
                match |-> create_document(db_match, "match",
                                          NewMatch(lk, liker_pet, target_pet)),
                resp |-> Matched(inserted_id(db_match, "match"))]
          ELSE [like |-> likes1, match |-> db_match, resp |-> Recorded]

swipe(lk) ==
    /\ LET r == swipe_result(lk)
       IN /\ db_like' = r.like
          /\ db_match' = r.match
          /\ last' = [op |-> "swipe", req |-> lk, resp |-> r.resp]
    /\ UNCHANGED <<db_owner, db_pet, db_message, calls>>

(* ------------------------------ messaging ------------------------------ *)
\* the membership test against owner_a_id alone
SenderInMatch_OwnerAOnly(payload, m) == payload.sender_owner_id = m.owner_a_id

\* payload.sender_owner_id in [match["owner_a_id"], match["owner_b_id"]]
SenderInMatch(payload, m) ==
    payload.sender_owner_id = m.owner_a_id \/ payload.sender_owner_id = m.owner_b_id

send_message(payload) ==
    /\ IF ~ValidOid(payload.match_id)
       THEN /\ last' = [op |-> "send_message", req |-> payload,
                        resp |-> HTTPException(400, "Invalid id format")]
            /\ UNCHANGED db_message
       ELSE LET m == FindById(db_match, oid(payload.match_id))
            IN IF m = None
               THEN /\ last' = [op |-> "send_message", req |-> payload,
                                resp |-> HTTPException(404, "Match not found")]
                    /\ UNCHANGED db_message
               ELSE IF ~SenderInMatch(payload, m)
               THEN /\ last' = [op |-> "send_message", req |-> payload,
                                resp |-> HTTPException(403, "Not part of this match")]
                    /\ UNCHANGED db_message
               ELSE /\ db_message' = create_document(db_message, "message", payload)
                    /\ last' = [op |-> "send_message", req |-> payload,
                                resp |-> Ok([id |-> inserted_id(db_message, "message")])]
    /\ UNCHANGED <<db_owner, db_pet, db_like, db_match, calls>>

(* ------------------- swipe, one store access per step ------------------ *)
\* the locals of one swipe call in flight; pets_existed is a history field:
\* whether both pet ids resolved to Pet records when the call arrived
NewCall(lk) ==
    [pc |-> "insert_like", like |-> lk, mutual |-> None, liker_pet |-> None,
     target_pet |-> None, exists |-> None, resp |-> None,
     pets_existed |-> /\ ValidOid(lk.liker_pet_id) /\ ValidOid(lk.target_pet_id)
                      /\ FindById(db_pet, oid(lk.liker_pet_id)) # None
                      /\ FindById(db_pet, oid(lk.target_pet_id)) # None]

Return(c, resp) == [calls EXCEPT ![c].pc = "done", ![c].resp = resp]

\* the request arrives; the self-swipe check reads no collection
CallStart(c, lk) ==
    /\ calls[c].pc = "idle"
    /\ calls' = IF IsSelfSwipe(lk)
                THEN [calls EXCEPT ![c] = [NewCall(lk) EXCEPT
                          !.pc = "done",
                          !.resp = HTTPException(400, "Cannot swipe your own pet")]]
                ELSE [calls EXCEPT ![c] = NewCall(lk)]
    /\ UNCHANGED <<db_owner, db_pet, db_like, db_match, db_message, last>>

\* an upsert: a Like of the same liker and target is replaced, not appended
CallInsertLike_Upsert(c) ==
    /\ calls[c].pc = "insert_like"
    /\ LET lk == calls[c].like
           same(d) == d.liker_pet_id = lk.liker_pet_id /\ d.target_pet_id = lk.target_pet_id
       IN db_like' = IF \E i \in 1..Len(db_like) : same(db_like[i])
                     THEN [i \in 1..Len(db_like) |->
                             IF same(db_like[i]) THEN [id |-> db_like[i].id] @@ lk
                             ELSE db_like[i]]
                     ELSE create_document(db_like, "like", lk)
    /\ calls' = [calls EXCEPT ![c].pc = "find_mutual"]
    /\ UNCHANGED <<db_owner, db_pet, db_match, db_message, last>>

\* the insert put off until after the lookup: the call reads before it has written
CallInsertLike_Deferred(c) ==
    /\ calls[c].pc = "insert_like"
    /\ calls' = [calls EXCEPT ![c].pc = "find_mutual"]
    /\ UNCHANGED <<db_owner, db_pet, db_like, db_match, db_message, last>>

\* create_document("like", like)
CallInsertLike(c) ==
    /\ calls[c].pc = "insert_like"
    /\ db_like' = create_document(db_like, "like", calls[c].like)
    /\ calls' = [calls EXCEPT ![c].pc = "find_mutual"]
    /\ UNCHANGED <<db_owner, db_pet, db_match, db_message, last>>

\* mutual = db["like"].find_one(...); if like.action == 'like' and mutual
CallFindMutual(c) ==
    /\ calls[c].pc = "find_mutual"
    /\ LET mutual == FindMutual(db_like, calls[c].like)
       IN calls' = IF WantsMatch(calls[c].like, mutual)
                   THEN [calls EXCEPT ![c].pc = "find_liker", ![c].mutual = mutual]
                   ELSE [Return(c, Recorded) EXCEPT ![c].mutual = mutual]
    /\ UNCHANGED <<db_owner, db_pet, db_like, db_match, db_message, last>>

\* liker_pet = db["pet"].find_one({"_id": oid(like.liker_pet_id)})
CallFindLiker(c) ==
    /\ calls[c].pc = "find_liker"
    /\ calls' = IF ~ValidOid(calls[c].like.liker_pet_id)
                THEN Return(c, HTTPException(400, "Invalid id format"))
                ELSE [calls EXCEPT
                        ![c].pc = "find_target",
                        ![c].liker_pet = FindById(db_pet, oid(calls[c].like.liker_pet_id))]
    /\ UNCHANGED <<db_owner, db_pet, db_like, db_match, db_message, last>>

\* target_pet = db["pet"].find_one(...); if not liker_pet or not target_pet
CallFindTarget(c) ==
    /\ calls[c].pc = "find_target"
    /\ calls' = IF ~ValidOid(calls[c].like.target_pet_id)
                THEN Return(c, HTTPException(400, "Invalid id format"))
                ELSE LET target_pet == FindById(db_pet, oid(calls[c].like.target_pet_id))
                     IN IF calls[c].liker_pet = None \/ target_pet = None
                        THEN [Return(c, Recorded) EXCEPT ![c].target_pet = target_pet]
                        ELSE [calls EXCEPT ![c].pc = "find_match",
                                           ![c].target_pet = target_pet]
    /\ UNCHANGED <<db_owner, db_pet, db_like, db_match, db_message, last>>

\* the result of the duplicate check ignored
CallFindMatch_Unchecked(c) ==
    /\ calls[c].pc = "find_match"
    /\ calls' = [calls EXCEPT ![c].pc = "insert_match",
                              ![c].exists = FindMatchPair(db_match, calls[c].like)]
    /\ UNCHANGED <<db_owner, db_pet, db_like, db_match, db_message, last>>

\* exists = db["match"].find_one({"$or": [...]}); if not exists
CallFindMatch(c) ==
    /\ calls[c].pc = "find_match"
    /\ LET exists == FindMatchPair(db_match, calls[c].like)
       IN calls' = IF exists = None
                   THEN [calls EXCEPT ![c].pc = "insert_match", ![c].exists = exists]
                   ELSE [Return(c, Recorded) EXCEPT ![c].exists = exists]
    /\ UNCHANGED <<db_owner, db_pet, db_like, db_match, db_message, last>>

\* match_id = create_document("match", Match(...)); return {"status": "match", ...}
CallInsertMatch(c) ==
    /\ calls[c].pc = "insert_match"
    /\ db_match' = create_document(db_match, "match",
                       NewMatch(calls[c].like, calls[c].liker_pet, calls[c].target_pet))
    /\ calls' = Return(c, Matched(inserted_id(db_match, "match")))
    /\ UNCHANGED <<db_owner, db_pet, db_like, db_message, last>>

(* --------------------------- specifications ---------------------------- *)
\* swipe calls run one at a time, between the first two pets
Next ==
    \/ \E e \in Emails : Len(db_owner) < MaxOwners /\ create_owner([email |-> e])
    \/ \E o \in OwnerIdInputs : Len(db_pet) < MaxPets /\ create_pet([owner_id |-> o])
    \/ \E lk \in PetLikeInputs : Len(db_like) < MaxLikes /\ swipe(lk)

Spec == Init /\ [][Next]_vars

\* swipe calls run one at a time, with any id string
NextIds ==
    \/ \E e \in Emails : Len(db_owner) < MaxOwners /\ create_owner([email |-> e])
    \/ \E o \in OwnerIdInputs : Len(db_pet) < MaxPets /\ create_pet([owner_id |-> o])
    \/ \E lk \in LikeInputs : Len(db_like) < MaxIdLikes /\ swipe(lk)

SpecIds == Init /\ [][NextIds]_vars

\* matches and the messages sent on them
NextMsg ==
    \/ \E e \in Emails : Len(db_owner) < MaxOwners /\ create_owner([email |-> e])
    \/ \E o \in OwnerIdInputs : Len(db_pet) < MaxPets /\ create_pet([owner_id |-> o])
    \/ \E lk \in MatchMakingInputs : Len(db_like) < MaxLikes /\ swipe(lk)
    \/ \E payload \in SendMessageInputs :
         Len(db_message) < MaxMessages /\ send_message(payload)

SpecMsg == Init /\ [][NextMsg]_vars

\* swipe calls whose store accesses interleave, on a store that holds two owners
\* and the first pet, or both pets, as create_owner and create_pet leave them
OwnersAtStart ==
    create_document(create_document(<<>>, "owner", [email |-> "a@x.io"]),
                    "owner", [email |-> "b@x.io"])

PetsAtStart ==
    LET one == create_document(<<>>, "pet", [owner_id |-> OwnerId1])
    IN {one, create_document(one, "pet", [owner_id |-> OwnerId2])}

InitConc ==
    /\ db_owner = OwnersAtStart
    /\ db_pet \in PetsAtStart
    /\ db_like = <<>>
    /\ db_match = <<>>
    /\ db_message = <<>>
    /\ last = [op |-> "none"]
    /\ calls = [c \in 1..NumCalls |-> NoCall]

NextConc ==
    \/ \E c \in 1..NumCalls :
         \/ \E lk \in LikeInputs : CallStart(c, lk)
         \/ CallInsertLike(c)
         \/ CallFindMutual(c)
         \/ CallFindLiker(c)
         \/ CallFindTarget(c)
         \/ CallFindMatch(c)
         \/ CallInsertMatch(c)

SpecConc == InitConc /\ [][NextConc]_vars

(* ------------------------------ properties ----------------------------- *)
\* the unordered pair of pet id strings a Match record names
PairOf(m) == {m.pet_a_id, m.pet_b_id}

\* the Match records of a collection for the unordered pair {a, b}
MatchesOf(matches, a, b) == {i \in 1..Len(matches) : PairOf(matches[i]) = {a, b}}

\* a 'like' from lk's target to lk's liker is on record
ReverseLikeOnRecord(likes, lk) ==
    \E i \in 1..Len(likes) : /\ likes[i].liker_pet_id = lk.target_pet_id
                             /\ likes[i].target_pet_id = lk.liker_pet_id
                             /\ likes[i].action = "like"

\* the id string names a Pet record
IsPet(s) == ValidOid(s) /\ \E i \in 1..Len(db_pet) : db_pet[i].id = oid(s)

\* the Pet record an id string names
PetOf(s) == db_pet[CHOOSE i \in 1..Len(db_pet) : db_pet[i].id = oid(s)]

\* the four request fields of a stored Like
LikeFields(d) == [liker_pet_id |-> d.liker_pet_id, target_pet_id |-> d.target_pet_id,
                  action |-> d.action, created_by_owner_id |-> d.created_by_owner_id]

\* docs2 is docs1 with exactly one document appended
AppendedOne(docs1, docs2) ==
    /\ Len(docs2) = Len(docs1) + 1
    /\ SubSeq(docs2, 1, Len(docs1)) = docs1
    /\ \A i \in 1..Len(docs1) : docs1[i].id # docs2[Len(docs2)].id

\* the last call was a swipe that passed the self-swipe check
LastSwipe == last.op = "swipe" /\ last.req.liker_pet_id # last.req.target_pet_id

\* the Likes on record before the last (non-self) swipe added its own
LikesBefore == SubSeq(db_like, 1, Len(db_like) - 1)

(* C1 *)
\* C1: with swipes run one at a time, no two Match records name the same
\* unordered pair of pets, whichever orientation each was stored in.
C1_OneMatchPerPair ==
    \A i, j \in 1..Len(db_match) :
        i # j => PairOf(db_match[i]) # PairOf(db_match[j])

\* a repeat mutual like was stopped by a Match stored in the other orientation
C1_Witness ==
    /\ LastSwipe /\ last.req.action = "like"
    /\ ReverseLikeOnRecord(db_like, last.req)
    /\ last.resp = Recorded
    /\ \E i \in 1..Len(db_match) : /\ db_match[i].pet_a_id = last.req.target_pet_id
                                   /\ db_match[i].pet_b_id = last.req.liker_pet_id

(* C2 *)
\* C2: for distinct pets A and B, a 'like' of A on B when B's 'like' on A is on
\* record and the pair has no Match yet creates exactly one Match and answers
\* status 'match'; once the pair has a Match, every swipe for the pair, in
\* either direction, answers recorded and leaves the match collection alone.
C2_MutualLikeMatchesOnce ==
    [][ LET lk == last'.req
            a == lk.liker_pet_id
            b == lk.target_pet_id
        IN (last'.op = "swipe" /\ a # b /\ IsPet(a) /\ IsPet(b)) =>
              IF MatchesOf(db_match, a, b) # {}
              THEN last'.resp = Recorded /\ db_match' = db_match
              ELSE (lk.action = "like" /\ ReverseLikeOnRecord(db_like, lk)) =>
                      /\ last'.resp.code = 200
                      /\ last'.resp.status = "match"
                      /\ AppendedOne(db_match, db_match')
                      /\ Cardinality(MatchesOf(db_match', a, b)) = 1
      ]_vars

\* the third swipe of a matched pair: recorded, and still one Match
C2_Witness ==
    /\ LastSwipe /\ last.req.action = "like"
    /\ Len(db_like) = 3
    /\ last.resp = Recorded
    /\ Cardinality(MatchesOf(db_match, last.req.liker_pet_id, last.req.target_pet_id)) = 1

(* C3 *)
\* C3: a swipe whose action is 'pass' never answers status 'match' and leaves
\* the match collection unchanged, whatever Likes are on record.
C3_PassNeverMatches ==
    [][ (last'.op = "swipe" /\ last'.req.action = "pass") =>
            /\ db_match' = db_match
            /\ last'.resp.code = 200 => last'.resp.status # "match"
      ]_vars

\* a pass between two existing pets with 'like' on record in both directions
\* and no Match for the pair
C3_Witness ==
    /\ LastSwipe /\ last.req.action = "pass"
    /\ IsPet(last.req.liker_pet_id) /\ IsPet(last.req.target_pet_id)
    /\ ReverseLikeOnRecord(LikesBefore, last.req)
    /\ ReverseLikeOnRecord(LikesBefore,
           [liker_pet_id |-> last.req.target_pet_id, target_pet_id |-> last.req.liker_pet_id])
    /\ MatchesOf(db_match, last.req.liker_pet_id, last.req.target_pet_id) = {}
    /\ last.resp = Recorded

(* C4 *)
\* C4: a swipe with liker_pet_id = target_pet_id fails with 400 for either
\* action and changes neither the like nor the match collection, so no stored
\* Like has liker_pet_id = target_pet_id.
C4_SelfSwipeRejected ==
    /\ [](\A i \in 1..Len(db_like) : db_like[i].liker_pet_id # db_like[i].target_pet_id)
    /\ [][ (last'.op = "swipe" /\ last'.req.liker_pet_id = last'.req.target_pet_id) =>
               /\ last'.resp = HTTPException(400, "Cannot swipe your own pet")
               /\ db_like' = db_like
               /\ db_match' = db_match
         ]_vars

\* a self-swipe with action 'pass' was refused while Likes were on record
C4_Witness ==
    /\ last.op = "swipe"
    /\ last.req.liker_pet_id = last.req.target_pet_id
    /\ last.req.action = "pass"
    /\ last.resp.code = 400
    /\ Len(db_like) > 0

(* C5 *)
\* the Match records an id string resolves to
MatchesNamed(s) == {i \in 1..Len(db_match) : ValidOid(s) /\ db_match[i].id = oid(s)}

\* C5: send_message stores a Message exactly when the match id resolves to a
\* Match and sender_owner_id is one of its two owner ids; a well-formed id of
\* no Match fails with 404, a sender who is neither owner with 403, both
\* storing nothing.  Every Match carries the owner ids of its two pets, and
\* every stored Message was sent by one of its Match's two owners.
C5_MessagingGuard ==
    /\ [](/\ \A i \in 1..Len(db_match) :
                /\ IsPet(db_match[i].pet_a_id) /\ IsPet(db_match[i].pet_b_id)
                /\ db_match[i].owner_a_id = PetOf(db_match[i].pet_a_id).owner_id
                /\ db_match[i].owner_b_id = PetOf(db_match[i].pet_b_id).owner_id
          /\ \A k \in 1..Len(db_message) :
                \E i \in MatchesNamed(db_message[k].match_id) :
                    db_message[k].sender_owner_id
                        \in {db_match[i].owner_a_id, db_match[i].owner_b_id})
    /\ [][ last'.op = "send_message" =>
             LET p == last'.req
                 named == MatchesNamed(p.match_id)
                 owns == \E i \in named :
                            p.sender_owner_id \in {db_match[i].owner_a_id, db_match[i].owner_b_id}
             IN IF owns
                THEN /\ AppendedOne(db_message, db_message')
                     /\ db_message'[Len(db_message')].match_id = p.match_id
                     /\ db_message'[Len(db_message')].sender_owner_id = p.sender_owner_id
                     /\ db_message'[Len(db_message')].sender_pet_id = p.sender_pet_id
                     /\ db_message'[Len(db_message')].text = p.text
                     /\ last'.resp.code = 200
                ELSE /\ db_message' = db_message
                     /\ named # {} => last'.resp.code = 403
                     /\ (named = {} /\ ValidOid(p.match_id)) => last'.resp.code = 404
         ]_vars

\* the owner of the target pet, who is not the liker's owner, sent a Message
C5_Witness ==
    /\ last.op = "send_message" /\ last.resp.code = 200
    /\ \E i \in MatchesNamed(last.req.match_id) :
          /\ db_match[i].owner_a_id # db_match[i].owner_b_id
          /\ last.req.sender_owner_id = db_match[i].owner_b_id
    /\ Len(db_message) = 1

(* C6 *)
\* the call that returned a Match record's id
InsertedBy(i) ==
    {c \in 1..NumCalls : /\ calls[c].pc = "done"
                         /\ calls[c].resp = Matched(str(db_match[i].id))}

\* C6: when the store accesses of swipe calls interleave, two Match records
\* for one unordered pair are reachable, and every Match record, a duplicate
\* included, was inserted by a call of its own whose duplicate check had found
\* no Match for the pair.
C6_DuplicatesPassTheCheck ==
    \A i \in 1..Len(db_match) :
        /\ Cardinality(InsertedBy(i)) = 1
        /\ \A c \in InsertedBy(i) :
              /\ calls[c].exists = None
              /\ calls[c].like.liker_pet_id = db_match[i].pet_a_id
              /\ calls[c].like.target_pet_id = db_match[i].pet_b_id

\* two Match records for the same unordered pair, from the likes A->B and B->A
C6_Witness ==
    \E i, j \in 1..Len(db_match) :
        /\ i # j
        /\ PairOf(db_match[i]) = PairOf(db_match[j])
        /\ db_match[i].pet_a_id = db_match[j].pet_b_id

(* C7 *)
\* the calls that have passed the insert of their Like
PastInsert(lk) ==
    {c \in 1..NumCalls : /\ calls[c].pc \notin {"idle", "insert_like"}
                         /\ calls[c].like = lk
                         /\ ~(calls[c].like.liker_pet_id = calls[c].like.target_pet_id)}

\* C7: every swipe that is not a self-swipe has appended exactly one Like
\* carrying its request's fields by the time it reads the reverse Like, and
\* keeps it whatever it answers; Likes are never updated or removed, so n
\* swipes of the same request leave n Like records for it.
C7_LikeAlwaysAppended ==
    /\ [](\A lk \in LikeInputs :
            Cardinality({i \in 1..Len(db_like) : LikeFields(db_like[i]) = lk})
                = Cardinality(PastInsert(lk)))
    /\ [][ \/ db_like' = db_like
           \/ AppendedOne(db_like, db_like') ]_vars

\* two finished swipes of the same request, and two Like records for it
C7_Witness ==
    \E c1, c2 \in 1..NumCalls :
        /\ c1 # c2
        /\ calls[c1].pc = "done" /\ calls[c2].pc = "done"
        /\ calls[c1].like = calls[c2].like
        /\ calls[c1].resp = Recorded
        /\ Cardinality({i \in 1..Len(db_like) : LikeFields(db_like[i]) = calls[c1].like}) = 2

(* C8 *)
\* C8 as stated: a 'like' swipe with a reverse 'like' on record and a pet id
\* that names no Pet record, whatever the id string is, answers recorded.
C8_AnyIdSoftFails ==
    (/\ LastSwipe /\ last.req.action = "like"
     /\ ReverseLikeOnRecord(db_like, last.req)
     /\ (~IsPet(last.req.liker_pet_id) \/ ~IsPet(last.req.target_pet_id)))
    => last.resp = Recorded

\* C8 amended: a 'like' swipe with a reverse 'like' on record and a pet id
\* that names no Pet record creates no Match; it answers recorded when both id
\* strings are well-formed, and fails with 400 "Invalid id format", its Like
\* already stored, when either is malformed.
C8_UnresolvedPetNoMatch ==
    [][ LET lk == last'.req
        IN (/\ last'.op = "swipe" /\ lk.action = "like"
            /\ lk.liker_pet_id # lk.target_pet_id
            /\ ReverseLikeOnRecord(db_like, lk)
            /\ (~IsPet(lk.liker_pet_id) \/ ~IsPet(lk.target_pet_id)))
           => /\ db_match' = db_match
              /\ AppendedOne(db_like, db_like')
              /\ last'.resp = IF ValidOid(lk.liker_pet_id) /\ ValidOid(lk.target_pet_id)
                              THEN Recorded
                              ELSE HTTPException(400, "Invalid id format")
      ]_vars

\* a mutual like where one pet exists and the other, well-formed, id does not
C8_Witness ==
    /\ LastSwipe /\ last.req.action = "like"
    /\ ReverseLikeOnRecord(db_like, last.req)
    /\ ValidOid(last.req.liker_pet_id) /\ ValidOid(last.req.target_pet_id)
    /\ IsPet(last.req.liker_pet_id) /\ ~IsPet(last.req.target_pet_id)
    /\ last.resp = Recorded
    /\ db_match = <<>>

(* C9 *)
\* C9: a swipe answers status 'match' exactly when it inserted a Match record;
\* match_id is that record's id, its pets are the liker and the target in that
\* order and its owner ids are the owner_id of their Pet records; every other
\* swipe leaves the match collection unchanged.
C9_MatchIffInserted ==
    [][ last'.op = "swipe" =>
          LET lk == last'.req
              answered == last'.resp.code = 200 /\ last'.resp.status = "match"
          IN IF answered
             THEN /\ AppendedOne(db_match, db_match')
                  /\ LET m == db_match'[Len(db_match')]
                     IN /\ last'.resp.match_id = str(m.id)
                        /\ m.pet_a_id = lk.liker_pet_id
                        /\ m.pet_b_id = lk.target_pet_id
                        /\ IsPet(lk.liker_pet_id) /\ IsPet(lk.target_pet_id)
                        /\ m.owner_a_id = PetOf(lk.liker_pet_id).owner_id
                        /\ m.owner_b_id = PetOf(lk.target_pet_id).owner_id
             ELSE db_match' = db_match
      ]_vars

\* a swipe answered 'match' for pets of two different owners
C9_Witness ==
    /\ LastSwipe
    /\ last.resp.code = 200 /\ last.resp.status = "match"
    /\ last.resp.match_id = str(db_match[Len(db_match)].id)
    /\ db_match[Len(db_match)].owner_a_id # db_match[Len(db_match)].owner_b_id

(* C10 *)
\* the Likes on record between two pet id strings, in either direction
LikesBetween(a, b) ==
    {i \in 1..Len(db_like) : {db_like[i].liker_pet_id, db_like[i].target_pet_id} = {a, b}}

\* C10: two finished 'like' swipes A->B and B->A between pets that existed
\* when the calls arrived leave at least one Match for {A,B}, however their
\* store accesses interleaved; when theirs are the only Likes between the two
\* pets, at least one of the two calls answered status 'match'.
C10_NoMutualLikeLost ==
    \A c1, c2 \in 1..NumCalls :
        (/\ c1 # c2
         /\ calls[c1].pc = "done" /\ calls[c2].pc = "done"
         /\ calls[c1].like.action = "like" /\ calls[c2].like.action = "like"
         /\ calls[c1].like.liker_pet_id # calls[c1].like.target_pet_id
         /\ calls[c1].like.liker_pet_id = calls[c2].like.target_pet_id
         /\ calls[c1].like.target_pet_id = calls[c2].like.liker_pet_id
         /\ calls[c1].pets_existed /\ calls[c2].pets_existed)
        => LET a == calls[c1].like.liker_pet_id
               b == calls[c1].like.target_pet_id
           IN /\ MatchesOf(db_match, a, b) # {}
              /\ Cardinality(LikesBetween(a, b)) = 2 =>
                    \E c \in {c1, c2} : /\ calls[c].resp.code = 200
                                        /\ calls[c].resp.status = "match"

\* both calls read the other's Like, one inserted the Match, the other found it
C10_Witness ==
    \E c1, c2 \in 1..NumCalls :
        /\ c1 # c2
        /\ calls[c1].pc = "done" /\ calls[c2].pc = "done"
        /\ calls[c1].pets_existed /\ calls[c2].pets_existed
        /\ calls[c1].mutual # None /\ calls[c2].mutual # None
        /\ calls[c1].like.liker_pet_id = calls[c2].like.target_pet_id
        /\ calls[c1].like.target_pet_id = calls[c2].like.liker_pet_id
        /\ calls[c1].resp = Recorded
        /\ calls[c1].exists # None
        /\ calls[c2].resp.code = 200 /\ calls[c2].resp.status = "match"
        /\ Len(db_match) = 1
====
